---------------------------- MODULE Spec2Model ----------------------------
(***************************************************************************)
(* Model of operators/renderSpriteSheet.py: the modal operator             *)
(* RenderSpriteSheet that renders every action of bpy.data.actions one     *)
(* frame per TIMER event, then runs the assembler and writes the .bss      *)
(* metadata file.                                                          *)
(*                                                                         *)
(* The window manager is the environment: it delivers the invoke call and  *)
(* the TIMER, ESC and other events, one at a time, and calls modal() only  *)
(* while the operator is a registered modal handler (from a               *)
(* {'RUNNING_MODAL'} return of invoke until modal returns {'FINISHED'} or  *)
(* {'CANCELLED'}, or raises).  One operator instance runs at a time.       *)
(* The render target is taken to be a valid animated object.               *)
(***************************************************************************)
EXTENDS Integers, Sequences, FiniteSets, TLC

(* ------------------------------ bounds --------------------------------- *)

\* Longest list of actions in bpy.data.actions.
MaxActions == 2

(* ------------------------- rational frame bounds ----------------------- *)

\* A frame_range bound is a float; it is modelled as the rational n/d, d > 0.
Rat(n, d) == [n |-> n, d |-> d]

\* math.floor of the rational q (\div rounds towards minus infinity).
Floor(q) == q.n \div q.d

\* math.ceil of the rational q.
Ceil(q) == -((-q.n) \div q.d)

(* ------------------------------ inputs --------------------------------- *)

\* Frame intervals an action may declare: [0,10], [0,4], [-1.5,0.5].
FrameRanges ==
    { <<Rat(0, 1), Rat(10, 1)>>,
      <<Rat(0, 1), Rat(4, 1)>>,
      <<Rat(-3, 2), Rat(1, 2)>> }

\* Pose marker frames an action may carry, in the action's own order.
PoseMarkers == { <<>>, <<7, 3, 12>> }

\* Action names; bpy.data.actions keeps names unique, the i-th action is
\* given the i-th name.
ActionNames == <<"A", "B", "C", "D">>

\* An action of bpy.data.actions.
Action(nm, fr, pm) == [name |-> nm, frame_range |-> fr, pose_markers |-> pm]

\* All action lists of exactly n actions.
ActionLists(n) ==
    { [i \in 1..n |-> Action(ActionNames[i], f[i][1], f[i][2])] :
        f \in [1..n -> FrameRanges \X PoseMarkers] }

\* bpy.data.actions: every list of 0..MaxActions actions.
AllActionLists == UNION { ActionLists(n) : n \in 0..MaxActions }

(* ------------------------------- state --------------------------------- *)

VARIABLES
    data_actions,             \* bpy.data.actions
    onlyRenderMarkedFrames,   \* props.onlyRenderMarkedFrames
    progressProps,            \* scene.ProgressPropertyGroup
    phase,                    \* lifecycle of the operator: Idle, Running, Finished, Cancelled
    _timer,                   \* self._timer
    wm_timer,                 \* the window manager still holds the operator's timer
    timerRemoves,             \* history: wm.event_timer_remove calls of this run
    _actions,                 \* self._actions
    _action_index,            \* self._action_index
    _frame_queue,             \* self._frame_queue
    _frame_queue_index,       \* self._frame_queue_index
    _animation_descs,         \* self._animation_descs
    _global_frame_end,        \* self._global_frame_end
    renders,                  \* history: frames passed to render_tile in this run
    lastRender,               \* history: result of the last render_tile call of this run
    ticks,                    \* history: TIMER events handled by modal in this run
    finishCalls,              \* history: calls of finish in this run
    assembler,                \* history: outcome of the assembler subprocess of this run
    bssWritten,               \* history: metadata payloads written in this run
    tempCleaned,              \* history: the temp cleanup of finish ran in this run
    successAtInvoke,          \* history: progressProps.success when this run was invoked
    lastEvent,                \* history: last thing the window manager delivered
    dropped                   \* history: the last event found no modal handler

schedVars ==
    <<_actions, _action_index, _frame_queue, _frame_queue_index,
      _animation_descs, _global_frame_end>>

histVars ==
    <<renders, lastRender, ticks, finishCalls, assembler,
      bssWritten, tempCleaned, successAtInvoke>>

envVars == <<data_actions, onlyRenderMarkedFrames>>

vars ==
    <<data_actions, onlyRenderMarkedFrames, progressProps, phase, _timer,
      wm_timer, _actions, _action_index, _frame_queue, _frame_queue_index,
      _animation_descs, _global_frame_end, renders, lastRender, ticks,
      finishCalls, assembler, bssWritten, tempCleaned, successAtInvoke,
      lastEvent, dropped, timerRemoves>>

(* --------------------------- pure functions ---------------------------- *)

\* frame_count(frame_range): (frameMax - frameMin, frameMin, frameMax).
frame_count(frame_range) ==
    LET frameMin == Floor(frame_range[1])
        frameMax == Ceil(frame_range[2])
    IN  <<frameMax - frameMin, frameMin, frameMax>>

\* list(range(lo, hi)): lo, lo+1, ..., hi-1 (empty when hi <= lo).
RangeList(lo, hi) ==
    IF hi <= lo THEN <<>> ELSE [k \in 1..(hi - lo) |-> lo + k - 1]

\* Mutant of FrameQueueOf: the range stops one frame short of frameMax.
FrameQueueOfExclusive(action, onlyMarked) ==
    IF onlyMarked /\ Len(action.pose_markers) > 0
    THEN action.pose_markers
    ELSE LET fc == frame_count(action.frame_range)
         IN  RangeList(fc[2], fc[3])

\* The frame queue setup_next_action builds for an action.
FrameQueueOf(action, onlyMarked) ==
    IF onlyMarked /\ Len(action.pose_markers) > 0
    THEN action.pose_markers
    ELSE LET fc == frame_count(action.frame_range)
         IN  RangeList(fc[2], fc[3] + 1)

\* Mutant of CountOf: the number of frames of the inclusive range.
CountOfInclusive(action) == frame_count(action.frame_range)[1] + 1

\* The count setup_next_action adds to _global_frame_end for an action.
CountOf(action) == frame_count(action.frame_range)[1]

(* ------------------------- progress properties ------------------------- *)

\* Mutant of InvokeProgress: the success flag of the last run is kept.
InvokeProgressKeepsSuccess(pp, n) ==
    [pp EXCEPT !.rendering = TRUE, !.actionTotal = n]

\* invoke, "1. Initialization": the progress properties at the start of a run.
InvokeProgress(pp, n) ==
    [pp EXCEPT !.rendering = TRUE, !.success = FALSE, !.actionTotal = n]

\* finish, "Cleanup": the progress properties after the metadata is written.
FinishProgress(pp) ==
    [pp EXCEPT !.rendering = FALSE, !.success = TRUE]

\* Mutant of CancelProgress: cancel reports success.
CancelProgressSuccess(pp) ==
    [pp EXCEPT !.rendering = FALSE, !.success = TRUE]

\* cancel: the progress properties after a cancelled run.
CancelProgress(pp) ==
    [pp EXCEPT !.rendering = FALSE]

(* ------------------------ the operator's methods ----------------------- *)

\* The fields of the operator instance together with what its methods touch
\* outside it, as one record the methods map to a new record.
Self ==
    [actions |-> _actions, action_index |-> _action_index,
     frame_queue |-> _frame_queue, frame_queue_index |-> _frame_queue_index,
     animation_descs |-> _animation_descs,
     global_frame_end |-> _global_frame_end,
     progressProps |-> progressProps,
     renders |-> renders, lastRender |-> lastRender]

\* Mutant of setup_next_action: the descriptor replaces the list instead of
\* being appended to it.
setup_next_action_overwrites(self, onlyMarked) ==
    LET current_action == self.actions[self.action_index + 1]
        queue == FrameQueueOf(current_action, onlyMarked)
        end == self.global_frame_end + CountOf(current_action)
    IN  [self EXCEPT
            !.progressProps =
                [@ EXCEPT !.actionName = current_action.name,
                          !.actionIndex = self.action_index,
                          !.tileTotal = Len(queue)],
            !.frame_queue = queue,
            !.frame_queue_index = 0,
            !.global_frame_end = end,
            !.animation_descs =
                <<[name |-> current_action.name, end |-> end]>>]

\* Mutant of setup_next_action: the queue position is not reset.
setup_next_action_keeps_index(self, onlyMarked) ==
    LET current_action == self.actions[self.action_index + 1]
        queue == FrameQueueOf(current_action, onlyMarked)
        end == self.global_frame_end + CountOf(current_action)
    IN  [self EXCEPT
            !.progressProps =
                [@ EXCEPT !.actionName = current_action.name,
                          !.actionIndex = self.action_index,
                          !.tileTotal = Len(queue)],
            !.frame_queue = queue,
            !.global_frame_end = end,
            !.animation_descs =
                Append(@, [name |-> current_action.name, end |-> end])]

\* setup_next_action: make actions[action_index] current, build its frame
\* queue, add its count to the cumulative total and append its descriptor.
setup_next_action(self, onlyMarked) ==
    LET current_action == self.actions[self.action_index + 1]
        queue == FrameQueueOf(current_action, onlyMarked)
        end == self.global_frame_end + CountOf(current_action)
    IN  [self EXCEPT
            !.progressProps =
                [@ EXCEPT !.actionName = current_action.name,
                          !.actionIndex = self.action_index,
                          !.tileTotal = Len(queue)],
            !.frame_queue = queue,
            !.frame_queue_index = 0,
            !.global_frame_end = end,
            !.animation_descs =
                Append(@, [name |-> current_action.name, end |-> end])]

\* Mutant of QueueExhausted: the last frame of a queue is skipped.
QueueExhaustedEarly(self) ==
    self.frame_queue_index + 1 >= Len(self.frame_queue)

\* process_step, first test: the current action's frames are all rendered.
QueueExhausted(self) ==
    self.frame_queue_index >= Len(self.frame_queue)

\* Mutant of NextQueueIndex: a frame whose render failed is tried again.
NextQueueIndexRetry(index, result) ==
    IF result = "FINISHED" THEN index + 1 ELSE index

\* process_step, after the render call: the position in the frame queue.
NextQueueIndex(index, result) == index + 1

\* Mutant of process_step: no return after setting up the next action, so
\* the same call goes on to render its first frame.
process_step_falls_through(self, onlyMarked, result) ==
    LET render(s) ==
            LET frame_num == s.frame_queue[s.frame_queue_index + 1]
            IN  [s EXCEPT
                    !.progressProps = [@ EXCEPT !.tileIndex = frame_num],
                    !.renders = Append(@, frame_num),
                    !.lastRender = result,
                    !.frame_queue_index = NextQueueIndex(@, result)]
    IN  IF QueueExhausted(self)
        THEN LET moved == [self EXCEPT !.action_index = @ + 1]
             IN  IF moved.action_index < Len(moved.actions)
                 THEN render(setup_next_action(moved, onlyMarked))
                 ELSE moved
        ELSE render(self)

\* Mutant of process_step: the position in the queue is rendered instead of
\* the frame number found there.
process_step_renders_position(self, onlyMarked, result) ==
    IF QueueExhausted(self)
    THEN LET moved == [self EXCEPT !.action_index = @ + 1]
         IN  IF moved.action_index < Len(moved.actions)
             THEN setup_next_action(moved, onlyMarked)
             ELSE moved
    ELSE LET frame_num == self.frame_queue_index
         IN  [self EXCEPT
                 !.progressProps = [@ EXCEPT !.tileIndex = frame_num],
                 !.renders = Append(@, frame_num),
                 !.lastRender = result,
                 !.frame_queue_index = NextQueueIndex(@, result)]

\* process_step: move to the next action, or render exactly one frame;
\* result is what render_tile returns, which the method does not look at.
process_step(self, onlyMarked, result) ==
    IF QueueExhausted(self)
    THEN LET moved == [self EXCEPT !.action_index = @ + 1]
         IN  IF moved.action_index < Len(moved.actions)
             THEN setup_next_action(moved, onlyMarked)
             ELSE moved
    ELSE LET frame_num == self.frame_queue[self.frame_queue_index + 1]
         IN  [self EXCEPT
                 !.progressProps = [@ EXCEPT !.tileIndex = frame_num],
                 !.renders = Append(@, frame_num),
                 !.lastRender = result,
                 !.frame_queue_index = NextQueueIndex(@, result)]

\* Mutant of AllDone: done one action early.
AllDoneEarly(self) == self.action_index + 1 >= Len(self.actions)

\* Mutant of AllDone: > in place of >=.
AllDoneStrict(self) == self.action_index > Len(self.actions)

\* modal, "Check if we are completely done".
AllDone(self) == self.action_index >= Len(self.actions)

\* Mutant of ModalResult: no {'FINISHED'} return after finish.
ModalResultPassThrough(done) == "PASS_THROUGH"

\* modal on a TIMER event: what it returns, given that test's outcome.
ModalResult(done) == IF done THEN "FINISHED" ELSE "PASS_THROUGH"

\* What render_tile may return.
RenderResults == {"FINISHED", "CANCELLED"}

\* How the assembler subprocess may end: exit code 0, a non-zero exit code,
\* or no executable at the path (subprocess.run raises FileNotFoundError).
AssemblerOutcomes == {"ok", "nonzero", "missing"}

\* finish: the metadata payload's "animations".
json_info(self) == self.animation_descs

\* finish: whether control reaches the lines after subprocess.run.
FinishCompletes(outcome) == outcome # "missing"

(* ------------------------------ initial state -------------------------- *)

Init ==
    /\ data_actions \in AllActionLists
    /\ onlyRenderMarkedFrames \in BOOLEAN
    /\ progressProps =
          [rendering |-> FALSE, success |-> FALSE, actionTotal |-> 0,
           actionName |-> "", actionIndex |-> 0, tileTotal |-> 0,
           tileIndex |-> 0]
    /\ phase = "Idle"
    /\ _timer = "None"
    /\ wm_timer = FALSE
    /\ timerRemoves = 0
    /\ _actions = <<>>
    /\ _action_index = 0
    /\ _frame_queue = <<>>
    /\ _frame_queue_index = 0
    /\ _animation_descs = <<>>
    /\ _global_frame_end = 0
    /\ renders = <<>>
    /\ lastRender = "none"
    /\ ticks = 0
    /\ finishCalls = 0
    /\ assembler = "none"
    /\ bssWritten = <<>>
    /\ tempCleaned = FALSE
    /\ successAtInvoke = FALSE
    /\ lastEvent = "NONE"
    /\ dropped = FALSE

(* -------------------------------- actions ------------------------------ *)

\* Assign the operator's fields from a record of them.
Store(self) ==
    /\ _actions' = self.actions
    /\ _action_index' = self.action_index
    /\ _frame_queue' = self.frame_queue
    /\ _frame_queue_index' = self.frame_queue_index
    /\ _animation_descs' = self.animation_descs
    /\ _global_frame_end' = self.global_frame_end
    /\ renders' = self.renders
    /\ lastRender' = self.lastRender

\* Mutant of Invoked: the descriptors and the cumulative count are not reset.
InvokedKeepsMetadata ==
    [actions |-> data_actions, action_index |-> 0,
     frame_queue |-> <<>>, frame_queue_index |-> 0,
     animation_descs |-> _animation_descs,
     global_frame_end |-> _global_frame_end,
     progressProps |-> InvokeProgress(progressProps, Len(data_actions)),
     renders |-> <<>>, lastRender |-> "none"]

\* A fresh operator instance (the class attributes) on which invoke has run
\* its "1. Initialization".
Invoked ==
    [actions |-> data_actions, action_index |-> 0,
     frame_queue |-> <<>>, frame_queue_index |-> 0,
     animation_descs |-> <<>>, global_frame_end |-> 0,
     progressProps |-> InvokeProgress(progressProps, Len(data_actions)),
     renders |-> <<>>, lastRender |-> "none"]

\* invoke: the user starts the operator while no run is in progress.
Invoke ==
    /\ phase # "Running"
    /\ lastEvent' = "INVOKE"
    /\ dropped' = FALSE
    /\ ticks' = 0
    /\ finishCalls' = 0
    /\ assembler' = "none"
    /\ bssWritten' = <<>>
    /\ tempCleaned' = FALSE
    /\ successAtInvoke' = progressProps.success
    /\ timerRemoves' = 0
    /\ UNCHANGED envVars
    /\ IF Invoked.actions = <<>>
       THEN /\ Store(Invoked)
            /\ progressProps' = Invoked.progressProps
            /\ _timer' = "None"
            /\ wm_timer' = FALSE
            /\ phase' = "Idle"
       ELSE LET self == setup_next_action(Invoked, onlyRenderMarkedFrames)
            IN  /\ Store(self)
                /\ progressProps' = self.progressProps
                /\ _timer' = "Timer"
                /\ wm_timer' = TRUE
                /\ phase' = "Running"

\* Mutant of finish: the timer is not removed.
finish_keeps_timer(self, outcome) ==
    /\ wm_timer' = wm_timer
    /\ timerRemoves' = timerRemoves
    /\ finishCalls' = finishCalls + 1
    /\ assembler' = outcome
    /\ IF FinishCompletes(outcome)
       THEN /\ bssWritten' = Append(bssWritten, json_info(self))
            /\ progressProps' = FinishProgress(self.progressProps)
            /\ tempCleaned' = TRUE
       ELSE /\ bssWritten' = bssWritten
            /\ progressProps' = self.progressProps
            /\ tempCleaned' = tempCleaned

\* finish, reached from modal with the operator's fields as process_step
\* left them: release the timer, run the assembler, write the metadata,
\* set the flags, remove the temp directory.
finish(self, outcome) ==
    /\ wm_timer' = FALSE
    /\ timerRemoves' = timerRemoves + 1
    /\ finishCalls' = finishCalls + 1
    /\ assembler' = outcome
    /\ IF FinishCompletes(outcome)
       THEN /\ bssWritten' = Append(bssWritten, json_info(self))
            /\ progressProps' = FinishProgress(self.progressProps)
            /\ tempCleaned' = TRUE
       ELSE /\ bssWritten' = bssWritten
            /\ progressProps' = self.progressProps
            /\ tempCleaned' = tempCleaned

\* modal on a TIMER event: one process_step, then finish when every action
\* is done.  The operator stops being a modal handler when finish was
\* called, by the {'FINISHED'} return or by the exception finish raised.
TimerTick ==
    /\ phase = "Running"
    /\ lastEvent' = "TIMER"
    /\ dropped' = FALSE
    /\ ticks' = ticks + 1
    /\ UNCHANGED <<envVars, _timer, successAtInvoke>>
    /\ \E result \in RenderResults :
         LET self == process_step(Self, onlyRenderMarkedFrames, result)
         IN  /\ Store(self)
             /\ phase' = IF ModalResult(AllDone(self)) = "PASS_THROUGH"
                         THEN "Running"
                         ELSE "Finished"
             /\ IF AllDone(self)
                THEN \E outcome \in AssemblerOutcomes : finish(self, outcome)
                ELSE /\ progressProps' = self.progressProps
                     /\ UNCHANGED <<wm_timer, timerRemoves, finishCalls,
                                    assembler, bssWritten, tempCleaned>>

\* Mutant of CancelResult: cancel does not end the modal operator.
CancelResultPassThrough == "PASS_THROUGH"

\* cancel: what it returns, and modal with it.
CancelResult == "CANCELLED"

\* modal on an ESC event: cancel.
EscEvent ==
    /\ phase = "Running"
    /\ lastEvent' = "ESC"
    /\ dropped' = FALSE
    /\ wm_timer' = FALSE
    /\ timerRemoves' = timerRemoves + 1
    /\ progressProps' = CancelProgress(progressProps)
    /\ phase' = IF CancelResult = "PASS_THROUGH" THEN "Running" ELSE "Cancelled"
    /\ UNCHANGED <<envVars, _timer, schedVars, histVars>>

\* Mutant of OtherEvent: modal runs process_step whatever the event is.
OtherEventSteps ==
    /\ phase = "Running"
    /\ lastEvent' = "OTHER"
    /\ dropped' = FALSE
    /\ LET self == process_step(Self, onlyRenderMarkedFrames, "FINISHED")
       IN  /\ Store(self)
           /\ progressProps' = self.progressProps
    /\ UNCHANGED <<envVars, phase, _timer, wm_timer, timerRemoves, ticks,
                   finishCalls, assembler, bssWritten, tempCleaned,
                   successAtInvoke>>

\* modal on any other event: {'PASS_THROUGH'}.
OtherEvent ==
    /\ phase = "Running"
    /\ lastEvent' = "OTHER"
    /\ dropped' = FALSE
    /\ UNCHANGED <<envVars, progressProps, phase, _timer, wm_timer,
                   timerRemoves, schedVars, histVars>>

\* An event while the operator is no modal handler: modal is not called.
EventDropped ==
    /\ phase # "Running"
    /\ lastEvent' \in {"TIMER", "ESC", "OTHER"}
    /\ dropped' = TRUE
    /\ UNCHANGED <<envVars, progressProps, phase, _timer, wm_timer,
                   timerRemoves, schedVars, histVars>>

Next ==
    \/ Invoke
    \/ TimerTick
    \/ EscEvent
    \/ OtherEvent
    \/ EventDropped

Spec == Init /\ [][Next]_vars

(* ---------------- a run driven by the timer alone ------------------------ *)

\* The operator when TIMER events are the only events the window manager
\* delivers: no ESC, no other event.
NextTimerOnly ==
    \/ Invoke
    \/ TimerTick

\* The timer invoke registers fires every 0.01 s for as long as it is
\* registered, so a running operator keeps receiving TIMER events.
SpecTimerOnly == Init /\ [][NextTimerOnly]_vars /\ WF_vars(TimerTick)

(* ------------------------- reference quantities ------------------------ *)

RECURSIVE SumQueueLen(_, _)
\* Sum of the lengths of the frame queues of a list of actions.
SumQueueLen(actions, onlyMarked) ==
    IF actions = <<>> THEN 0
    ELSE Len(FrameQueueOf(Head(actions), onlyMarked))
            + SumQueueLen(Tail(actions), onlyMarked)

RECURSIVE AllFrames(_, _)
\* The frame queues of a list of actions, one after the other.
AllFrames(actions, onlyMarked) ==
    IF actions = <<>> THEN <<>>
    ELSE FrameQueueOf(Head(actions), onlyMarked)
            \o AllFrames(Tail(actions), onlyMarked)

\* finish has been called in the current run.
FinishReached == finishCalls >= 1

(* -------------------------------- claims ------------------------------- *)

\* C1: a run of a non-empty action list driven only by TIMER events always
\* reaches Finished, and at Finished the ticks that issued a render number
\* the sum of the queue lengths and the other ticks number len(actions), so
\* the tick total is fixed by the action list and the flag.
C1_TicksToFinished ==
    /\ [](phase = "Finished" =>
            /\ Len(renders) = SumQueueLen(data_actions, onlyRenderMarkedFrames)
            /\ ticks - Len(renders) = Len(data_actions)
            /\ ticks = SumQueueLen(data_actions, onlyRenderMarkedFrames)
                          + Len(data_actions))
    /\ ((phase = "Running") ~> (phase = "Finished"))

\* C1 witness: a finished run of two actions, one of them rendered from its
\* pose markers.
C1_Witness ==
    /\ phase = "Finished"
    /\ Len(data_actions) = 2
    /\ onlyRenderMarkedFrames
    /\ data_actions[1].pose_markers # <<>>
    /\ data_actions[2].pose_markers = <<>>
    /\ ticks = Len(renders) + 2

\* C2: finish is called at most once in a run, it has been called exactly
\* once at Finished and not at all in any other phase, and the step that
\* calls it is the TIMER tick on which the action index reaches the action
\* count, with every frame of every queue already requested.
C2_FinishOnce ==
    /\ [](/\ finishCalls = (IF phase = "Finished" THEN 1 ELSE 0)
          /\ (finishCalls = 1 =>
                /\ _action_index = Len(_actions)
                /\ renders = AllFrames(_actions, onlyRenderMarkedFrames)))
    /\ [][(finishCalls' = finishCalls + 1) <=>
            /\ lastEvent' = "TIMER"
            /\ ~dropped'
            /\ _action_index < Len(_actions)
            /\ _action_index' = Len(_actions')]_vars

\* C2 witness: finish has been called once after both queues of a two-action
\* run were rendered.
C2_Witness ==
    /\ finishCalls = 1
    /\ Len(_actions) = 2
    /\ _action_index = 2
    /\ Len(renders) > Len(_frame_queue)

C5_EmptyStartChangesNothing ==
    (lastEvent = "INVOKE" /\ data_actions = <<>>) =>
        /\ phase = "Idle"
        /\ ~progressProps.rendering
        /\ _timer = "None"
        /\ ~wm_timer
        /\ _animation_descs = <<>>
        /\ renders = <<>>

RECURSIVE IntervalCountSum(_, _)
\* Sum over the first k actions of ceil(interval.end) - floor(interval.start).
IntervalCountSum(actions, k) ==
    IF k = 0 THEN 0
    ELSE IntervalCountSum(actions, k - 1)
            + (Ceil(actions[k].frame_range[2]) - Floor(actions[k].frame_range[1]))

\* C6: the k-th descriptor's end is the sum over the first k actions of
\* ceil(end) - floor(start), whatever onlyRenderMarkedFrames and the pose
\* markers are; intervals [0,10] then [0,4] give ends 10 then 14.
C6_DescriptorEnds ==
    /\ \A k \in 1..Len(_animation_descs) :
          _animation_descs[k].end = IntervalCountSum(_actions, k)
    /\ (/\ Len(_animation_descs) = 2
        /\ _actions[1].frame_range = <<Rat(0, 1), Rat(10, 1)>>
        /\ _actions[2].frame_range = <<Rat(0, 1), Rat(4, 1)>>)
          => (_animation_descs[1].end = 10 /\ _animation_descs[2].end = 14)

\* C6 witness: intervals [0,10] then [0,4], the first action rendered from
\* its three pose markers, both descriptors appended.
C6_Witness ==
    /\ onlyRenderMarkedFrames
    /\ Len(_actions) = 2
    /\ _actions[1].frame_range = <<Rat(0, 1), Rat(10, 1)>>
    /\ _actions[1].pose_markers = <<7, 3, 12>>
    /\ _actions[2].frame_range = <<Rat(0, 1), Rat(4, 1)>>
    /\ _animation_descs =
          <<[name |-> "A", end |-> 10], [name |-> "B", end |-> 14]>>

\* C7: the success flag is true only at Finished, after finish was called;
\* so it is false initially, while Running, when Cancelled, and after any
\* new invoke.
C7_SuccessOnlyFinished ==
    progressProps.success => (phase = "Finished" /\ FinishReached)

\* C7 witness: a run invoked while the flag was still true from the run
\* before it is Running with the flag false.
C7_Witness ==
    /\ successAtInvoke
    /\ phase = "Running"
    /\ ~progressProps.success

\* C8: when the assembler exits non-zero or is missing, success is false
\* and the operator is in its terminal phase with the timer released and
\* the rendering flag false.
C8_AssemblyFailureReported ==
    (FinishReached /\ assembler \in {"nonzero", "missing"}) =>
        /\ ~progressProps.success
        /\ phase = "Finished"
        /\ ~wm_timer
        /\ ~progressProps.rendering

\* C9: a tick whose render fails still moves the queue position on by one
\* within the same action and stays Running; the frames requested are
\* always an initial part of the frames of all the queues in order, so no
\* position is requested twice; and the run still reaches Finished, with
\* every frame requested and the action index at the action count.
C9_RenderFailureContinues ==
    /\ [][(lastEvent' = "TIMER" /\ renders' # renders
              /\ lastRender' = "CANCELLED") =>
            /\ renders' = Append(renders, _frame_queue[_frame_queue_index + 1])
            /\ _frame_queue_index' = _frame_queue_index + 1
            /\ _frame_queue' = _frame_queue
            /\ _action_index' = _action_index
            /\ phase' = "Running"]_vars
    /\ [](/\ Len(renders) <= Len(AllFrames(_actions, onlyRenderMarkedFrames))
          /\ renders = SubSeq(AllFrames(_actions, onlyRenderMarkedFrames),
                              1, Len(renders)))
    /\ [](phase = "Finished" =>
            /\ renders = AllFrames(_actions, onlyRenderMarkedFrames)
            /\ _action_index = Len(_actions))
    /\ ((phase = "Running" /\ lastRender = "CANCELLED")
            ~> (phase = "Finished"))

\* C9 witness: a finished run whose last render failed.
C9_Witness ==
    /\ phase = "Finished"
    /\ lastRender = "CANCELLED"
    /\ Len(_actions) = 2

\* C10: a handled TIMER event adds at most one frame to the frames
\* requested, and none when it moves the action index or calls finish.
C10_OneRenderPerTick ==
    [][(lastEvent' = "TIMER" /\ ~dropped') =>
          /\ Len(renders') \in {Len(renders), Len(renders) + 1}
          /\ SubSeq(renders', 1, Len(renders)) = renders
          /\ (_action_index' # _action_index \/ finishCalls' # finishCalls)
                => renders' = renders]_vars

\* C10 witness: the tick that moved from the first action to the second.
C10_Witness ==
    /\ phase = "Running"
    /\ lastEvent = "TIMER"
    /\ _action_index = 1
    /\ _frame_queue_index = 0
    /\ renders # <<>>

(* ------------------------ reference enumeration ------------------------ *)

\* The frames to render for an action: its marked frames in their own order
\* when onlyMarked is set and there is one, else every integer from
\* floor(start) to ceil(end).
Enumerate(action, onlyMarked) ==
    IF onlyMarked /\ action.pose_markers # <<>>
    THEN action.pose_markers
    ELSE LET first == Floor(action.frame_range[1])
             last == Ceil(action.frame_range[2])
         IN  [k \in 1..(last - first + 1) |-> first + k - 1]

RECURSIVE EnumerateAll(_, _)
\* The enumerations of a list of actions, one after the other.
EnumerateAll(actions, onlyMarked) ==
    IF actions = <<>> THEN <<>>
    ELSE Enumerate(Head(actions), onlyMarked)
            \o EnumerateAll(Tail(actions), onlyMarked)

\* The first n elements of a sequence.
Prefix(seq, n) == SubSeq(seq, 1, n)

\* The operator was invoked on a non-empty action list: a run was started.
RunStarted == _timer = "Timer"

\* C11: from the start of a run the frames requested are the enumerations
\* of the actions already left, in action order, followed by the first
\* frame_queue_index frames of the current action's enumeration; once finish
\* has been called they are the enumerations of all the actions in order.
C11_RenderOrder ==
    /\ RunStarted =>
          renders =
             EnumerateAll(Prefix(_actions, _action_index),
                          onlyRenderMarkedFrames)
             \o (IF _action_index < Len(_actions)
                 THEN Prefix(Enumerate(_actions[_action_index + 1],
                                       onlyRenderMarkedFrames),
                             _frame_queue_index)
                 ELSE <<>>)
    /\ FinishReached =>
          renders = EnumerateAll(data_actions, onlyRenderMarkedFrames)

\* C11 witness: a finished run of two actions, the first rendered from its
\* pose markers 7, 3, 12 and the second over [-1.5, 0.5].
C11_Witness ==
    /\ FinishReached
    /\ onlyRenderMarkedFrames
    /\ renders = <<7, 3, 12, -2, -1, 0, 1>>

\* C12: the frame queue of the current action is its marked frames in the
\* action's own order when onlyRenderMarkedFrames holds and it has one, and
\* otherwise floor(start), ..., ceil(end), ceil(end) - floor(start) + 1
\* frames.
C12_QueueIsEnumeration ==
    (RunStarted /\ _action_index < Len(_actions)) =>
        LET action == _actions[_action_index + 1]
            first == Floor(action.frame_range[1])
            last == Ceil(action.frame_range[2])
        IN  /\ _frame_queue = Enumerate(action, onlyRenderMarkedFrames)
            /\ (onlyRenderMarkedFrames /\ action.pose_markers # <<>>)
                  => _frame_queue = action.pose_markers
            /\ (~onlyRenderMarkedFrames \/ action.pose_markers = <<>>)
                  => /\ Len(_frame_queue) = last - first + 1
                     /\ \A k \in 1..Len(_frame_queue) :
                           _frame_queue[k] = first + k - 1

\* C12 witness: with onlyRenderMarkedFrames set, the second action has no
\* marker and is queued over [-1.5, 0.5] after the first was queued from its
\* unsorted markers.
C12_Witness ==
    /\ phase = "Running"
    /\ onlyRenderMarkedFrames
    /\ _action_index = 1
    /\ _actions[1].pose_markers = <<7, 3, 12>>
    /\ Prefix(renders, 3) = <<7, 3, 12>>
    /\ _actions[2].pose_markers = <<>>
    /\ _frame_queue = <<-2, -1, 0, 1>>

\* cancel has been called in the current run.
CancelReached == timerRemoves >= 1 /\ finishCalls = 0

C14_StartResets ==
    (lastEvent = "INVOKE" /\ data_actions # <<>>) =>
        LET first == data_actions[1]
            count == Ceil(first.frame_range[2]) - Floor(first.frame_range[1])
        IN  /\ phase = "Running"
            /\ _actions = data_actions
            /\ _action_index = 0
            /\ _frame_queue_index = 0
            /\ _frame_queue = Enumerate(first, onlyRenderMarkedFrames)
            /\ _animation_descs = <<[name |-> first.name, end |-> count]>>
            /\ _global_frame_end = count
            /\ renders = <<>>

\* C14 witness: a run just invoked after a run of two actions that finished
\* with success.
C14_Witness ==
    /\ lastEvent = "INVOKE"
    /\ phase = "Running"
    /\ successAtInvoke
    /\ Len(data_actions) = 2

\* C15: the cumulative frame count is the number of frames queued for the
\* actions begun so far: the sum of the lengths of their frame queues.
C15_CumulativeIsQueuedFrames ==
    RunStarted =>
        _global_frame_end =
            SumQueueLen(Prefix(_actions, Len(_animation_descs)),
                        onlyRenderMarkedFrames)

\* The smaller of two numbers.
Min(a, b) == IF a <= b THEN a ELSE b

\* C16: in a run the descriptor list has min(action index + 1, action
\* count) entries, the k-th named after actions[k]; no step of the run
\* changes or removes an entry; and a metadata payload that was written
\* holds one descriptor per action, in action order.
C16_DescriptorsFollowActions ==
    /\ [](RunStarted =>
            /\ Len(_animation_descs) = Min(_action_index + 1, Len(_actions))
            /\ \A k \in 1..Len(_animation_descs) :
                  _animation_descs[k].name = _actions[k].name)
    /\ [][lastEvent' # "INVOKE" =>
            /\ Len(_animation_descs') >= Len(_animation_descs)
            /\ Prefix(_animation_descs', Len(_animation_descs))
                  = _animation_descs]_vars
    /\ []((FinishReached /\ assembler # "missing") <=> bssWritten # <<>>)
    /\ [](bssWritten # <<>> =>
            /\ Len(bssWritten) = 1
            /\ bssWritten[1] = _animation_descs
            /\ Len(bssWritten[1]) = Len(data_actions)
            /\ \A k \in 1..Len(data_actions) :
                  bssWritten[1][k].name = data_actions[k].name)

\* C16 witness: the payload of a finished run of two actions was written.
C16_Witness ==
    /\ FinishReached
    /\ bssWritten # <<>>
    /\ Len(bssWritten[1]) = 2
    /\ bssWritten[1][1].name = "A"
    /\ bssWritten[1][2].name = "B"

\* C17: within a run the action index stays or goes up by one at each step
\* and never exceeds the action count; when it equals the action count the
\* phase is Finished, and from then on no step of the run changes it.
C17_ActionIndex ==
    /\ [][lastEvent' # "INVOKE" =>
            _action_index' \in {_action_index, _action_index + 1}]_vars
    /\ [](_action_index >= 0 /\ _action_index <= Len(_actions))
    /\ []((RunStarted /\ _action_index = Len(_actions))
            => phase = "Finished")
    /\ [][(RunStarted /\ _action_index = Len(_actions)
              /\ lastEvent' # "INVOKE") =>
            (_action_index' = _action_index /\ phase' = "Finished")]_vars

\* C17 witness: a TIMER event arrived after the action index of a run of
\* two actions reached 2.
C17_Witness ==
    /\ phase = "Finished"
    /\ Len(_actions) = 2
    /\ _action_index = 2
    /\ lastEvent = "TIMER"
    /\ dropped
    /\ assembler = "ok"

\* C18: the queue position is within 0..len(queue); it is 0 right after
\* invoke and right after the move to a next action; a tick that renders
\* raises it by one and keeps the queue; the action index moves on, and
\* the queue is replaced, only when the position equals len(queue).
C18_QueuePosition ==
    /\ [](_frame_queue_index >= 0
            /\ _frame_queue_index <= Len(_frame_queue))
    /\ [](lastEvent = "INVOKE" => _frame_queue_index = 0)
    /\ [][(lastEvent' = "TIMER" /\ renders' # renders) =>
            /\ _frame_queue_index' = _frame_queue_index + 1
            /\ _frame_queue' = _frame_queue]_vars
    /\ [][(lastEvent' = "TIMER" /\ ~dropped'
              /\ (_action_index' # _action_index
                    \/ _frame_queue' # _frame_queue)) =>
            /\ _frame_queue_index = Len(_frame_queue)
            /\ (_action_index' < Len(_actions')
                  => _frame_queue_index' = 0)]_vars

\* C18 witness: the second action's queue is exhausted, position equal to
\* its length, before the tick that leaves it.
C18_Witness ==
    /\ phase = "Running"
    /\ _action_index = 1
    /\ _frame_queue_index = Len(_frame_queue)
    /\ _frame_queue_index > 0

\* C19: the window manager holds the operator's timer exactly while the
\* phase is Running; the timer appears only by an invoke on a non-empty
\* action list; and event_timer_remove has been called once at Finished and
\* at Cancelled and not at all otherwise.
C19_TimerHeldWhileRunning ==
    /\ [](wm_timer <=> phase = "Running")
    /\ [](wm_timer => _timer = "Timer")
    /\ [](timerRemoves =
            (IF phase \in {"Finished", "Cancelled"} THEN 1 ELSE 0))
    /\ [][(~wm_timer /\ wm_timer') =>
            /\ lastEvent' = "INVOKE"
            /\ data_actions # <<>>
            /\ phase' = "Running"]_vars

\* C19 witness: a run finished with the assembler missing has released its
\* timer once.
C19_Witness ==
    /\ phase = "Finished"
    /\ assembler = "missing"
    /\ ~wm_timer
    /\ timerRemoves = 1

\* C20: an event other than TIMER and ESC delivered to the running operator
\* changes nothing of the scheduler, the progress properties, the timer or
\* the history and leaves it Running; a step that changes any of the
\* scheduler, the frames requested, the progress properties or the phase is
\* a TIMER event, an ESC event or an invoke.
C20_OtherEvents ==
    /\ [][(phase = "Running" /\ lastEvent' = "OTHER") =>
            UNCHANGED <<schedVars, histVars, progressProps, phase, _timer,
                        wm_timer, timerRemoves>>]_vars
    /\ [][(schedVars' # schedVars \/ renders' # renders
              \/ progressProps' # progressProps \/ phase' # phase) =>
            lastEvent' \in {"TIMER", "ESC", "INVOKE"}]_vars

\* C20 witness: another event was delivered in the middle of the second
\* action.
C20_Witness ==
    /\ phase = "Running"
    /\ lastEvent = "OTHER"
    /\ ~dropped
    /\ _action_index = 1
    /\ _frame_queue_index = 2

====
